---- MODULE Spec2Model ----
(***************************************************************************)
(* The crowdsourced sentiment-analysis notebook                            *)
(* (tutorials/crowdsourcing/Crowdsourced_Sentiment_Analysis-pandas.ipynb)  *)
(* as a state machine: one action per code cell, run top to bottom.  A     *)
(* cell that raises stops the run (pc = "error").                          *)
(*                                                                         *)
(* A DataFrame is a sequence of records; the field idx is the row's index  *)
(* label (pandas keeps the left frame's labels through join, column        *)
(* selection, sort_values and drop_duplicates).                            *)
(***************************************************************************)
EXTENDS Naturals, Integers, Sequences, FiniteSets, TLC

VARIABLES raw_crowd_answers, gold_crowd_answers, gold_answers,
          candidate_labeled_tweets, values, tweet_list, wls,
          L_train, train_cand_labels, test_cand_labels, gen_model, gen_score,
          mv, mv_n_correct, accs, train_marginals, train_cands, lstm,
          test_cands, lstm_score, pc, ran, raised

vars == <<raw_crowd_answers, gold_crowd_answers, gold_answers,
          candidate_labeled_tweets, values, tweet_list, wls,
          L_train, train_cand_labels, test_cand_labels, gen_model, gen_score,
          mv, mv_n_correct, accs, train_marginals, train_cands, lstm,
          test_cands, lstm_score, pc, ran, raised>>

(***************************************************************************)
(* Bounds of the input tables.                                             *)
(***************************************************************************)
\* longest exhaustively enumerated vote table
MaxRows == 3
\* most tweets in a regular table (every tweet with the same number of votes)
MaxWide == 10

SmallTweets == {1, 2}
SmallWorkers == {1, 2}
Emotions == {"Negative", "Positive"}

(***************************************************************************)
(* Generic helpers.                                                        *)
(***************************************************************************)
Range(s) == {s[i] : i \in DOMAIN s}

SeqsUpTo(S, n) == UNION {[1..k -> S] : k \in 0..n}

\* Python's list.index: 0-based position of the first occurrence
ListIndex(s, x) == (CHOOSE i \in 1..Len(s) :
                       s[i] = x /\ \A j \in 1..(i - 1) : s[j] # x) - 1

\* pandas' Series.unique: the distinct elements in order of first appearance
Unique(s) ==
  LET U[i \in 0..Len(s)] ==
        IF i = 0 THEN <<>>
        ELSE LET prev == U[i - 1]
             IN IF s[i] \in Range(prev) THEN prev ELSE Append(prev, s[i])
  IN U[Len(s)]

\* str(n): an injective conversion of an id to a dictionary key / String column
Str(n) == <<n>>

\* the text of a tweet; a tweet id has one text in every input table
Body(t) == <<"text", t>>

\* sum of a sequence of naturals
SumSeq(s) ==
  LET S[i \in 0..Len(s)] == IF i = 0 THEN 0 ELSE S[i - 1] + s[i]
  IN S[Len(s)]

(***************************************************************************)
(* Input tables.  pd.read_csv gives row i the index label i, from 0.       *)
(***************************************************************************)
RawRow(i, t, w, e) ==
  [idx |-> i, tweet_id |-> t, tweet_body |-> Body(t), worker_id |-> w,
   emotion |-> e]

GoldRow(i, t, s, cat, conf) ==
  [idx |-> i, tweet_id |-> t, sentiment |-> s, tweet_body |-> Body(t),
   correct_category |-> cat, correct_category_conf |-> conf]

\* the classes of the task; "Neutral" is voted in LabelledInputs only
Sentiments == Emotions \cup {"Neutral"}

\* what the gold file says of one tweet: nothing, or a row that is validated,
\* of low confidence, of the wrong category, or both
GoldOptions ==
  {<<"absent", "Yes", 1>>, <<"Negative", "Yes", 1>>, <<"Negative", "Yes", 0>>,
   <<"Negative", "No", 1>>, <<"Negative", "No", 0>>}

\* a validated gold row of each sentiment
ValidatedOptions == {<<s, "Yes", 1>> : s \in Sentiments}

\* the gold table with the rows g[t] of the tweets in 1..n, in tweet order
GoldTable(n, g) ==
  LET present == {t \in 1..n : g[t][1] # "absent"}
      G[t \in 0..n] ==
        IF t = 0 THEN <<>>
        ELSE LET prev == G[t - 1]
             IN IF t \in present
                THEN Append(prev,
                            GoldRow(Len(prev), t, g[t][1], g[t][2], g[t][3]))
                ELSE prev
  IN G[n]

RawTable(r) == [i \in 1..Len(r) |-> RawRow(i - 1, r[i][1], r[i][2], r[i][3])]

\* every vote table of at most MaxRows rows, every tweet with a validated
\* gold row of any sentiment
SmallInputs ==
  {[raw |-> RawTable(r), gold |-> GoldTable(Cardinality(SmallTweets), g)] :
     r \in SeqsUpTo(SmallTweets \X SmallWorkers \X Emotions, MaxRows),
     g \in [SmallTweets -> ValidatedOptions]}

\* the votes of one worker on at most MaxRows tweets, with every gold table
JoinInputs ==
  {[raw |-> RawTable(r), gold |-> GoldTable(Cardinality(SmallTweets), g)] :
     r \in SeqsUpTo(SmallTweets \X {1} \X {"Negative"}, MaxRows),
     g \in [SmallTweets -> GoldOptions]}

\* n tweets with k votes each (workers 1..k), the rows grouped by tweet;
\* every tweet has a validated gold row
WideEmotion(t, w) == IF (t + w) % 2 = 0 THEN "Negative" ELSE "Positive"

WideInput(n, k) ==
  [raw |-> [i \in 1..(n * k) |->
              LET t == ((i - 1) \div k) + 1
                  w == ((i - 1) % k) + 1
              IN RawRow(i - 1, t, w, WideEmotion(t, w))],
   gold |-> GoldTable(n, [t \in 1..n |-> <<WideEmotion(t, 1), "Yes", 1>>])]

WideInputs == {WideInput(n, k) : n \in 1..MaxWide, k \in 1..2}

\* the 3-item, 3-worker dense scenario, after one vote on a fourth tweet
ScenarioVotes ==
  <<<<4, 4, "Negative">>,
    <<1, 1, "Negative">>, <<1, 2, "Negative">>, <<1, 3, "Positive">>,
    <<2, 1, "Positive">>, <<2, 2, "Positive">>, <<2, 3, "Positive">>,
    <<3, 1, "Negative">>, <<3, 2, "Positive">>, <<3, 3, "Negative">>>>

ScenarioInput ==
  [raw |-> [i \in 1..Len(ScenarioVotes) |->
              RawRow(i - 1, ScenarioVotes[i][1], ScenarioVotes[i][2],
                     ScenarioVotes[i][3])],
   gold |-> GoldTable(4, <<<<"Negative", "Yes", 1>>, <<"Positive", "Yes", 1>>,
                           <<"Positive", "Yes", 1>>, <<"Negative", "Yes", 1>>>>)]

\* two workers voting on two tweets, the first tweet's votes in the first
\* and last rows, each vote with any label of the task; the gold sentiment
\* of both tweets is the first vote's label
LabelledInputs ==
  {[raw |-> RawTable(<<<<1, 1, e[1]>>, <<2, 1, e[2]>>, <<2, 2, e[3]>>,
                       <<1, 2, e[4]>>>>),
    gold |-> GoldTable(2, [t \in 1..2 |-> <<e[1], "Yes", 1>>])] :
     e \in [1..4 -> Sentiments]}

Inputs ==
  SmallInputs \cup JoinInputs \cup WideInputs \cup {ScenarioInput}
    \cup LabelledInputs

(***************************************************************************)
(* Cell 7: data loading.                                                   *)
(***************************************************************************)
\* gold_crowd_answers[cols][(correct_category == 'Yes') & (conf == 1)]
FilterGold(gold) ==
  LET kept == SelectSeq(gold, LAMBDA g : g.correct_category = "Yes"
                                         /\ g.correct_category_conf = 1)
  IN [k \in 1..Len(kept) |->
        [idx |-> kept[k].idx, tweet_id |-> kept[k].tweet_id,
         sentiment |-> kept[k].sentiment, tweet_body |-> kept[k].tweet_body]]

\* one joined row: the left row's index label, the columns kept by the
\* selection ['tweet_id.raw','tweet_body.raw','worker_id','emotion']
JoinedRow(r) ==
  [idx |-> r.idx, tweet_id |-> r.tweet_id, tweet_body |-> r.tweet_body,
   worker_id |-> r.worker_id, emotion |-> r.emotion]

\* the join with the gold row's sentiment selected as the vote's label
InnerJoinGoldLabel(left, right) ==
  LET J[i \in 0..Len(left)] ==
        IF i = 0 THEN <<>>
        ELSE LET m == SelectSeq(right,
                                LAMBDA g : g.tweet_id = left[i].tweet_id)
             IN J[i - 1] \o [k \in 1..Len(m) |->
                               [JoinedRow(left[i]) EXCEPT
                                  !.emotion = m[k].sentiment]]
  IN J[Len(left)]

\* the same as a left join: a left row without a match is kept
LeftJoin(left, right) ==
  LET J[i \in 0..Len(left)] ==
        IF i = 0 THEN <<>>
        ELSE LET m == SelectSeq(right,
                                LAMBDA g : g.tweet_id = left[i].tweet_id)
             IN IF Len(m) = 0 THEN Append(J[i - 1], JoinedRow(left[i]))
                ELSE J[i - 1] \o [k \in 1..Len(m) |-> JoinedRow(left[i])]
  IN J[Len(left)]

\* left.join(right.set_index('tweet_id'), on=['tweet_id'], how='inner'):
\* each left row once per right row with its tweet_id, in the left's order
InnerJoin(left, right) ==
  LET J[i \in 0..Len(left)] ==
        IF i = 0 THEN <<>>
        ELSE LET m == SelectSeq(right,
                                LAMBDA g : g.tweet_id = left[i].tweet_id)
             IN J[i - 1] \o [k \in 1..Len(m) |-> JoinedRow(left[i])]
  IN J[Len(left)]

(***************************************************************************)
(* Cell 11: the label values of the Tweet candidate class.                 *)
(***************************************************************************)
EmotionColumn(df) == [i \in 1..Len(df) |-> df[i].emotion]

\* list(candidate_labeled_tweets.emotion.unique())
Values(df) == Unique(EmotionColumn(df))

(***************************************************************************)
(* Cells 15-16: the candidates and their split.                            *)
(***************************************************************************)
TweetIds(df) == {df[i].tweet_id : i \in DOMAIN df}

\* the tweet ids of a frame in increasing order
SortedIds(S) ==
  LET RECURSIVE Sort(_)
      Sort(T) == IF T = {} THEN <<>>
                 ELSE LET m == CHOOSE x \in T : \A y \in T : x <= y
                      IN <<m>> \o Sort(T \ {m})
  IN Sort(S)

\* df[["tweet_id","tweet_body"]].sort_values("tweet_id").drop_duplicates():
\* one row per tweet, in tweet_id order.  sort_values' default quicksort is
\* not stable, so the row that comes first among a tweet's rows, whose index
\* label the kept row carries, is any of them: rep[t] is its position.
\* (the same without drop_duplicates: a row per vote)
TweetBodiesAll(df, rep) ==
  [k \in 1..Len(df) |->
     [idx |-> df[k].idx, tweet_id |-> df[k].tweet_id,
      tweet_body |-> df[k].tweet_body]]

TweetBodies(df, rep) ==
  LET ids == SortedIds(TweetIds(df))
  IN [k \in 1..Len(ids) |->
        [idx |-> df[rep[ids[k]]].idx, tweet_id |-> ids[k],
         tweet_body |-> df[rep[ids[k]]].tweet_body]]

\* the choices of the first row of each tweet
RowsOf(df, t) == {i \in DOMAIN df : df[i].tweet_id = t}

Reps(df) ==
  LET RECURSIVE R(_)
      R(T) == IF T = {} THEN {[x \in {} |-> 0]}
              ELSE LET t == CHOOSE x \in T : TRUE
                   IN {[x \in (DOMAIN f) \cup {t} |->
                          IF x = t THEN i ELSE f[x]] :
                         f \in R(T \ {t}), i \in RowsOf(df, t)}
  IN R(TweetIds(df))

\* split = 1 if i <= test_split else 0, with test_split = total_tweets*0.1
SplitOf(i, total_tweets) == IF 10 * i <= total_tweets THEN 1 ELSE 0

\* the loop over tweet_bodies.iterrows(): a Tweet per row, ids in add order
TweetList(tb) ==
  [k \in 1..Len(tb) |->
     [id |-> k, name |-> Str(tb[k].tweet_id), text |-> tb[k].tweet_body,
      split |-> SplitOf(tb[k].idx, Len(tb))]]

(***************************************************************************)
(* Cells 20-24: the votes of each tweet, and the label generator.          *)
(***************************************************************************)
\* a defaultdict(list) read at key k
WlsGet(w, k) == IF k \in DOMAIN w THEN w[k] ELSE <<>>

\* wls[k] = [v], and wls[k].insert(0, v), in place of the append below
WlsAssign(w, k, v) ==
  [x \in (DOMAIN w) \cup {k} |-> IF x = k THEN <<v>> ELSE w[x]]

WlsPrepend(w, k, v) ==
  [x \in (DOMAIN w) \cup {k} |-> IF x = k THEN <<v>> \o WlsGet(w, k) ELSE w[x]]

\* wls[k].append(v)
WlsAppend(w, k, v) ==
  [x \in (DOMAIN w) \cup {k} |-> IF x = k THEN Append(WlsGet(w, k), v) ELSE w[x]]

\* (the loop stopping one row short)
BuildWlsShort(df) ==
  LET W[i \in 0..Len(df)] ==
        IF i = 0 THEN [x \in {} |-> <<>>]
        ELSE WlsAppend(W[i - 1], Str(df[i].tweet_id),
                       <<Str(df[i].worker_id), df[i].emotion>>)
  IN IF Len(df) = 0 THEN W[0] ELSE W[Len(df) - 1]

\* for i, row in worker_labels.iterrows():
\*     wls[str(row.tweet_id)].append((str(row.worker_id), row.emotion))
BuildWls(df) ==
  LET W[i \in 0..Len(df)] ==
        IF i = 0 THEN [x \in {} |-> <<>>]
        ELSE WlsAppend(W[i - 1], Str(df[i].tweet_id),
                       <<Str(df[i].worker_id), df[i].emotion>>)
  IN W[Len(df)]

\* the (worker_id, label) pairs the generator yields for candidate c
\* (the same yielding the pairs of every tweet)
worker_label_generator_all(w, c) ==
  LET RECURSIVE Cat(_)
      Cat(K) == IF K = {} THEN <<>>
                ELSE LET k == CHOOSE x \in K : TRUE
                     IN w[k] \o Cat(K \ {k})
  IN Cat(DOMAIN w)

\* (the same falling back on another tweet's votes for a missing key)
worker_label_generator_fallback(w, c) ==
  IF c.name \in DOMAIN w \/ DOMAIN w = {} THEN WlsGet(w, c.name)
  ELSE w[CHOOSE k \in DOMAIN w : TRUE]

worker_label_generator(w, c) == WlsGet(w, c.name)

\* (wls.pop(k) in place of the read: the votes yielded are removed)
WlsPop(w, K) ==
  [x \in (DOMAIN w) \ K |-> w[x]]

\* reading wls[k] of a defaultdict stores an empty list under a missing key
WlsTouch(w, K) ==
  [x \in (DOMAIN w) \cup K |-> WlsGet(w, x)]

(***************************************************************************)
(* session.query(Tweet).filter(Tweet.split == split).order_by(Tweet.id)    *)
(***************************************************************************)
\* the candidates of a set, by increasing id
ById(C) ==
  LET RECURSIVE Sort(_)
      Sort(T) == IF T = {} THEN <<>>
                 ELSE LET m == CHOOSE x \in T : \A y \in T : x.id <= y.id
                      IN <<m>> \o Sort(T \ {m})
  IN Sort(C)

\* (by decreasing id)
ByIdDesc(C) ==
  LET RECURSIVE Sort(_)
      Sort(T) == IF T = {} THEN <<>>
                 ELSE LET m == CHOOSE x \in T : \A y \in T : x.id >= y.id
                      IN <<m>> \o Sort(T \ {m})
  IN Sort(C)

QueryTweetsDesc(tl, split) == ByIdDesc({c \in Range(tl) : c.split = split})

QueryTweets(tl, split) == ById({c \in Range(tl) : c.split = split})

(***************************************************************************)
(* Cell 25: LabelAnnotator(label_generator=...).apply(split=0).  The       *)
(* annotator is library code; it is modelled from the specification of the *)
(* label matrix builder: one row per candidate of the split in a stable    *)
(* order, one column per worker seen, integer-coded cells, 0 for no vote,  *)
(* and a repeated (item, worker) pair either rejected or kept first-seen.  *)
(***************************************************************************)
\* the rows of the matrix: the split's candidates by id
AnnotatorCandidates(tl, split) == ById({c \in Range(tl) : c.split = split})

\* the integer code of a label: 1 + its position among the class's values
LabelCode(vals, label) == ListIndex(vals, label) + 1

\* the worker keys yielded for the rows, in order of first appearance
AnnotationKeys(tl, w) ==
  LET cands == AnnotatorCandidates(tl, 0)
      K[i \in 0..Len(cands)] ==
        IF i = 0 THEN <<>>
        ELSE LET g == worker_label_generator(w, cands[i])
             IN K[i - 1] \o [k \in 1..Len(g) |-> g[k][1]]
  IN Unique(K[Len(cands)])

\* the first label a generator output gives for a key, as a code; 0 if none
FirstVote(g, key, vals) ==
  LET hits == SelectSeq(g, LAMBDA p : p[1] = key)
  IN IF Len(hits) = 0 THEN 0 ELSE LabelCode(vals, hits[1][2])

LabelMatrix(tl, w, vals) ==
  LET cands == AnnotatorCandidates(tl, 0)
      keys == AnnotationKeys(tl, w)
  IN [cand_ids |-> [i \in 1..Len(cands) |-> cands[i].id],
      keys |-> keys,
      M |-> [i \in 1..Len(cands) |->
               [j \in 1..Len(keys) |->
                  FirstVote(worker_label_generator(w, cands[i]), keys[j],
                            vals)]]]

\* some split-0 candidate has two votes of one worker
HasRepeatedPair(tl, w) ==
  \E c \in Range(AnnotatorCandidates(tl, 0)) :
    LET g == worker_label_generator(w, c)
    IN \E a, b \in 1..Len(g) : a # b /\ g[a][1] = g[b][1]

(***************************************************************************)
(* Cells 27-29: the gold labels of the candidates.                         *)
(***************************************************************************)
\* dict([(str(t.tweet_id), t.sentiment) for i, t in gold_answers.iterrows()])
VerboseLabels(ga) ==
  [k \in {Str(ga[i].tweet_id) : i \in DOMAIN ga} |->
     LET last == CHOOSE i \in DOMAIN ga :
                   /\ Str(ga[i].tweet_id) = k
                   /\ \A j \in DOMAIN ga : Str(ga[j].tweet_id) = k => j <= i
     IN ga[last].sentiment]

\* values.index(...) raises ValueError for a sentiment no worker voted
GoldLabelsRaise(tl, ga, vals) ==
  \E c \in Range(tl) : VerboseLabels(ga)[c.name] \notin Range(vals)

\* (the same without the + 1: codes from 0)
GoldLabelsFromZero(tl, ga, vals, split) ==
  LET cands == QueryTweets(tl, split)
  IN [i \in 1..Len(cands) |->
        ListIndex(vals, VerboseLabels(ga)[cands[i].name])]

\* gold_labels[split]: values.index(verbose_labels[c.tweet.name]) + 1 per cand
GoldLabels(tl, ga, vals, split) ==
  LET cands == QueryTweets(tl, split)
  IN [i \in 1..Len(cands) |->
        ListIndex(vals, VerboseLabels(ga)[cands[i].name]) + 1]

(***************************************************************************)
(* Cells 31-35, 42: the generative model.  Library code, modelled from the *)
(* specification: the fitted parameters are a function of the label matrix *)
(* and the hyperparameters, a marginal is a function of the fitted model   *)
(* and the item's row; both are represented by their arguments.            *)
(***************************************************************************)
NonZero(row) == SelectSeq(row, LAMBDA x : x # 0)

LabelCodes(L) == UNION {Range(NonZero(L.M[i])) : i \in DOMAIN L.M}

\* training fails loudly on an empty matrix or fewer than 2 label codes
GenTrainFails(L) == Len(L.M) = 0 \/ Cardinality(LabelCodes(L)) < 2

GenTrain(L) ==
  [cardinality |-> CHOOSE m \in LabelCodes(L) : \A x \in LabelCodes(L) : x <= m,
   reg_type |-> 2, reg_param |-> <<1, 10>>, epochs |-> 30,
   fit_on |-> L.M]

Marginal(g, row) == [model |-> g, votes |-> row]

GenMarginals(g, L) == [i \in 1..Len(L.M) |-> Marginal(g, L.M[i])]

GenScore(g, L, gold) == [model |-> g, rows |-> L.M, gold |-> gold]

(***************************************************************************)
(* Cell 37: the majority-vote baseline.                                    *)
(***************************************************************************)
Count(s, x) == Cardinality({i \in DOMAIN s : s[i] = x})

\* Counter(s).most_common(1)[0][0]: a Counter keeps its keys in order of
\* first insertion and most_common(1) is max() over them by count, which
\* returns the first key of maximal count
\* (the first key of minimal count)
MostCommonLeast(s) ==
  LET keys == Unique(s)
  IN keys[CHOOSE k \in 1..Len(keys) :
            /\ \A j \in 1..Len(keys) : Count(s, keys[j]) >= Count(s, keys[k])
            /\ \A j \in 1..(k - 1) : Count(s, keys[j]) > Count(s, keys[k])]

MostCommon(s) ==
  LET keys == Unique(s)
  IN keys[CHOOSE k \in 1..Len(keys) :
            /\ \A j \in 1..Len(keys) : Count(s, keys[j]) <= Count(s, keys[k])
            /\ \A j \in 1..(k - 1) : Count(s, keys[j]) < Count(s, keys[k])]

\* c.most_common(1)[0] raises IndexError on a row without votes
MajorityVoteRaises(L) == \E i \in DOMAIN L.M : Len(NonZero(L.M[i])) = 0

\* [L_train[i,j] for j in L_train[i].nonzero()[1]] per row, then the mode
MajorityVote(L) == [i \in 1..Len(L.M) |-> MostCommon(NonZero(L.M[i]))]

\* np.sum([1 for i in range(L_train.shape[0]) if mv[i] == labels[i]])
NCorrect(votes, labels) ==
  Cardinality({i \in DOMAIN votes : votes[i] = labels[i]})

(***************************************************************************)
(* Cell 40: the accuracy of each worker, as <<n_correct, nnz>>.            *)
(***************************************************************************)
Column(L, j) == [i \in 1..Len(L.M) |-> L.M[i][j]]

WorkerAccuracyRaises(L) ==
  \E j \in DOMAIN L.keys : Len(NonZero(Column(L, j))) = 0

WorkerAccuracies(L, labels) ==
  [j \in 1..Len(L.keys) |->
     <<NCorrect(Column(L, j), labels), Len(NonZero(Column(L, j)))>>]

(***************************************************************************)
(* Cells 46-47: the classifier.  Library code; what it is given is kept.   *)
(***************************************************************************)
LstmTrain(card, cands, marginals) ==
  [seed |-> 1701, cardinality |-> card, X |-> cands, Y |-> marginals]

LstmScore(model, cands, labels) ==
  [model |-> model, X |-> cands, Y |-> labels]

(***************************************************************************)
(* The state machine.                                                      *)
(***************************************************************************)
NoMatrix == [cand_ids |-> <<>>, keys |-> <<>>, M |-> <<>>]

Init ==
  /\ \E in \in Inputs :
       /\ raw_crowd_answers = in.raw
       /\ gold_crowd_answers = in.gold
  /\ gold_answers = <<>>
  /\ candidate_labeled_tweets = <<>>
  /\ values = <<>>
  /\ tweet_list = <<>>
  /\ wls = <<>>
  /\ L_train = NoMatrix
  /\ train_cand_labels = <<>>
  /\ test_cand_labels = <<>>
  /\ gen_model = <<>>
  /\ gen_score = <<>>
  /\ mv = <<>>
  /\ mv_n_correct = 0
  /\ accs = <<>>
  /\ train_marginals = <<>>
  /\ train_cands = <<>>
  /\ lstm = <<>>
  /\ test_cands = <<>>
  /\ lstm_score = <<>>
  /\ pc = "load_data"
  /\ ran = {}
  /\ raised = "none"

\* the cell at pc ran to its end; next is the following cell
Advance(cell, next) ==
  /\ pc = cell
  /\ pc' = next
  /\ ran' = ran \cup {cell}
  /\ raised' = raised

\* the cell at pc raised: the run stops
Raise(cell, what) ==
  /\ pc = cell
  /\ pc' = "error"
  /\ ran' = ran
  /\ raised' = what

LoadData ==
  /\ Advance("load_data", "define_tweet")
  /\ gold_answers' = FilterGold(gold_crowd_answers)
  /\ candidate_labeled_tweets' =
       InnerJoin(raw_crowd_answers, FilterGold(gold_crowd_answers))
  /\ UNCHANGED <<raw_crowd_answers, gold_crowd_answers, values, tweet_list, wls, L_train, train_cand_labels,
                 test_cand_labels, gen_model, gen_score, mv, mv_n_correct,
                 accs, train_marginals, train_cands, lstm, test_cands,
                 lstm_score>>

DefineTweet ==
  /\ Advance("define_tweet", "create_candidates")
  /\ values' = Values(candidate_labeled_tweets)
  /\ UNCHANGED <<raw_crowd_answers, gold_crowd_answers, gold_answers,
                 candidate_labeled_tweets, tweet_list, wls,
                 L_train, train_cand_labels, test_cand_labels, gen_model,
                 gen_score, mv, mv_n_correct, accs, train_marginals,
                 train_cands, lstm, test_cands, lstm_score>>

\* cells 15 and 16: tweet_bodies is read by the loop only
CreateCandidates ==
  /\ Advance("create_candidates", "build_wls")
  /\ \E rep \in Reps(candidate_labeled_tweets) :
       tweet_list' = TweetList(TweetBodies(candidate_labeled_tweets, rep))
  /\ UNCHANGED <<raw_crowd_answers, gold_crowd_answers, gold_answers,
                 candidate_labeled_tweets, values, wls, L_train,
                 train_cand_labels, test_cand_labels, gen_model, gen_score,
                 mv, mv_n_correct, accs, train_marginals, train_cands, lstm,
                 test_cands, lstm_score>>

BuildWorkerLabels ==
  /\ Advance("build_wls", "apply_labeler")
  /\ wls' = BuildWls(candidate_labeled_tweets)
  /\ UNCHANGED <<raw_crowd_answers, gold_crowd_answers, gold_answers,
                 candidate_labeled_tweets, values, tweet_list,
                 L_train, train_cand_labels, test_cand_labels, gen_model,
                 gen_score, mv, mv_n_correct, accs, train_marginals,
                 train_cands, lstm, test_cands, lstm_score>>

\* the annotator keeps the first-seen vote of a repeated (item, worker) pair
ApplyLabeler ==
  /\ Advance("apply_labeler", "gold_labels")
  /\ L_train' = LabelMatrix(tweet_list, wls, values)
  /\ wls' = WlsTouch(wls, {c.name : c \in Range(AnnotatorCandidates(tweet_list, 0))})
  /\ UNCHANGED <<raw_crowd_answers, gold_crowd_answers, gold_answers,
                 candidate_labeled_tweets, values, tweet_list,
                 train_cand_labels, test_cand_labels, gen_model, gen_score,
                 mv, mv_n_correct, accs, train_marginals, train_cands, lstm,
                 test_cands, lstm_score>>

\* or the annotator rejects a vote table with a repeated (item, worker) pair
ApplyLabelerRejects ==
  /\ HasRepeatedPair(tweet_list, wls)
  /\ Raise("apply_labeler", "DuplicateVote")
  /\ UNCHANGED <<raw_crowd_answers, gold_crowd_answers, gold_answers,
                 candidate_labeled_tweets, values, tweet_list,
                 wls, L_train, train_cand_labels, test_cand_labels,
                 gen_model, gen_score, mv, mv_n_correct, accs,
                 train_marginals, train_cands, lstm, test_cands, lstm_score>>

LoadGoldLabels ==
  /\ pc = "gold_labels"
  /\ IF GoldLabelsRaise(tweet_list, gold_answers, values)
     THEN /\ Raise("gold_labels", "ValueError")
          /\ UNCHANGED <<train_cand_labels, test_cand_labels>>
     ELSE /\ Advance("gold_labels", "train_gen")
          /\ train_cand_labels' = GoldLabels(tweet_list, gold_answers, values, 0)
          /\ test_cand_labels' = GoldLabels(tweet_list, gold_answers, values, 1)
  /\ UNCHANGED <<raw_crowd_answers, gold_crowd_answers, gold_answers,
                 candidate_labeled_tweets, values, tweet_list,
                 wls, L_train, gen_model, gen_score, mv, mv_n_correct, accs,
                 train_marginals, train_cands, lstm, test_cands, lstm_score>>

TrainGenerativeModel ==
  /\ pc = "train_gen"
  /\ IF GenTrainFails(L_train)
     THEN /\ Raise("train_gen", "TrainingError")
          /\ UNCHANGED gen_model
     ELSE /\ Advance("train_gen", "score_gen")
          /\ gen_model' = GenTrain(L_train)
  /\ UNCHANGED <<raw_crowd_answers, gold_crowd_answers, gold_answers,
                 candidate_labeled_tweets, values, tweet_list,
                 wls, L_train, train_cand_labels, test_cand_labels,
                 gen_score, mv, mv_n_correct, accs, train_marginals,
                 train_cands, lstm, test_cands, lstm_score>>

ScoreGenerativeModel ==
  /\ Advance("score_gen", "majority_vote")
  /\ gen_score' = GenScore(gen_model, L_train, train_cand_labels)
  /\ UNCHANGED <<raw_crowd_answers, gold_crowd_answers, gold_answers,
                 candidate_labeled_tweets, values, tweet_list,
                 wls, L_train, train_cand_labels, test_cand_labels,
                 gen_model, mv, mv_n_correct, accs, train_marginals,
                 train_cands, lstm, test_cands, lstm_score>>

MajorityVoteBaseline ==
  /\ pc = "majority_vote"
  /\ IF MajorityVoteRaises(L_train)
     THEN /\ Raise("majority_vote", "IndexError")
          /\ UNCHANGED <<mv, mv_n_correct>>
     ELSE /\ Advance("majority_vote", "worker_accuracy")
          /\ mv' = MajorityVote(L_train)
          /\ mv_n_correct' = NCorrect(MajorityVote(L_train), train_cand_labels)
  /\ UNCHANGED <<raw_crowd_answers, gold_crowd_answers, gold_answers,
                 candidate_labeled_tweets, values, tweet_list,
                 wls, L_train, train_cand_labels, test_cand_labels,
                 gen_model, gen_score, accs, train_marginals, train_cands,
                 lstm, test_cands, lstm_score>>

WorkerAccuracyBaseline ==
  /\ pc = "worker_accuracy"
  /\ IF WorkerAccuracyRaises(L_train)
     THEN /\ Raise("worker_accuracy", "ZeroDivisionError")
          /\ UNCHANGED accs
     ELSE /\ Advance("worker_accuracy", "marginals")
          /\ accs' = WorkerAccuracies(L_train, train_cand_labels)
  /\ UNCHANGED <<raw_crowd_answers, gold_crowd_answers, gold_answers,
                 candidate_labeled_tweets, values, tweet_list,
                 wls, L_train, train_cand_labels, test_cand_labels,
                 gen_model, gen_score, mv, mv_n_correct, train_marginals,
                 train_cands, lstm, test_cands, lstm_score>>

ComputeMarginals ==
  /\ Advance("marginals", "train_lstm")
  /\ train_marginals' = GenMarginals(gen_model, L_train)
  /\ UNCHANGED <<raw_crowd_answers, gold_crowd_answers, gold_answers,
                 candidate_labeled_tweets, values, tweet_list,
                 wls, L_train, train_cand_labels, test_cand_labels,
                 gen_model, gen_score, mv, mv_n_correct, accs, train_cands,
                 lstm, test_cands, lstm_score>>

TrainLstm ==
  /\ Advance("train_lstm", "score_lstm")
  /\ train_cands' = QueryTweets(tweet_list, 0)
  /\ lstm' = LstmTrain(Len(values), QueryTweets(tweet_list, 0), train_marginals)
  /\ UNCHANGED <<raw_crowd_answers, gold_crowd_answers, gold_answers,
                 candidate_labeled_tweets, values, tweet_list,
                 wls, L_train, train_cand_labels, test_cand_labels,
                 gen_model, gen_score, mv, mv_n_correct, accs,
                 train_marginals, test_cands, lstm_score>>

ScoreLstm ==
  /\ Advance("score_lstm", "done")
  /\ test_cands' = QueryTweets(tweet_list, 1)
  /\ lstm_score' = LstmScore(lstm, QueryTweets(tweet_list, 1), test_cand_labels)
  /\ UNCHANGED <<raw_crowd_answers, gold_crowd_answers, gold_answers,
                 candidate_labeled_tweets, values, tweet_list,
                 wls, L_train, train_cand_labels, test_cand_labels,
                 gen_model, gen_score, mv, mv_n_correct, accs,
                 train_marginals, train_cands, lstm>>

Next ==
  \/ LoadData
  \/ DefineTweet
  \/ CreateCandidates
  \/ BuildWorkerLabels
  \/ ApplyLabeler
  \/ ApplyLabelerRejects
  \/ LoadGoldLabels
  \/ TrainGenerativeModel
  \/ ScoreGenerativeModel
  \/ MajorityVoteBaseline
  \/ WorkerAccuracyBaseline
  \/ ComputeMarginals
  \/ TrainLstm
  \/ ScoreLstm

Spec == Init /\ [][Next]_vars

(***************************************************************************)
(* The label generator, the matrix builder, the fit and the marginals,     *)
(* applied to any candidate list: the candidates are the tweets of         *)
(* SmallTweets, each in either split, whether or not the vote table has a  *)
(* vote on them.                                                           *)
(***************************************************************************)
\* a candidate per tweet of SmallTweets, in tweet order, split[t] its split
CandidateList(split) ==
  LET ids == SortedIds(SmallTweets)
  IN [k \in 1..Len(ids) |->
        [id |-> k, name |-> Str(ids[k]), text |-> Body(ids[k]),
         split |-> split[ids[k]]]]

BuilderInputs ==
  {[votes |-> RawTable(r), cands |-> CandidateList(split)] :
     r \in SeqsUpTo(SmallTweets \X SmallWorkers \X Emotions, MaxRows),
     split \in [SmallTweets -> {0, 1}]}

InitBuilder ==
  /\ \E in \in BuilderInputs :
       /\ candidate_labeled_tweets = in.votes
       /\ values = Values(in.votes)
       /\ tweet_list = in.cands
       /\ wls = BuildWls(in.votes)
  /\ raw_crowd_answers = <<>>
  /\ gold_crowd_answers = <<>>
  /\ gold_answers = <<>>
  /\ L_train = NoMatrix
  /\ train_cand_labels = <<>>
  /\ test_cand_labels = <<>>
  /\ gen_model = <<>>
  /\ gen_score = <<>>
  /\ mv = <<>>
  /\ mv_n_correct = 0
  /\ accs = <<>>
  /\ train_marginals = <<>>
  /\ train_cands = <<>>
  /\ lstm = <<>>
  /\ test_cands = <<>>
  /\ lstm_score = <<>>
  /\ pc = "build_matrix"
  /\ ran = {}
  /\ raised = "none"

\* labeler.apply(split=0), keeping the first-seen vote of a repeated pair
BuildMatrix ==
  /\ Advance("build_matrix", "fit_matrix")
  /\ L_train' = LabelMatrix(tweet_list, wls, values)
  /\ wls' = WlsTouch(wls, {c.name : c \in Range(AnnotatorCandidates(tweet_list, 0))})
  /\ UNCHANGED <<raw_crowd_answers, gold_crowd_answers, gold_answers,
                 candidate_labeled_tweets, values, tweet_list,
                 train_cand_labels, test_cand_labels, gen_model, gen_score,
                 mv, mv_n_correct, accs, train_marginals, train_cands, lstm,
                 test_cands, lstm_score>>

\* or rejecting a repeated pair
BuildMatrixRejects ==
  /\ HasRepeatedPair(tweet_list, wls)
  /\ Raise("build_matrix", "DuplicateVote")
  /\ UNCHANGED <<raw_crowd_answers, gold_crowd_answers, gold_answers,
                 candidate_labeled_tweets, values, tweet_list,
                 wls, L_train, train_cand_labels, test_cand_labels,
                 gen_model, gen_score, mv, mv_n_correct, accs,
                 train_marginals, train_cands, lstm, test_cands, lstm_score>>

\* gen_model.train(L_train, ...)
FitMatrix ==
  /\ pc = "fit_matrix"
  /\ IF GenTrainFails(L_train)
     THEN /\ Raise("fit_matrix", "TrainingError")
          /\ UNCHANGED gen_model
     ELSE /\ Advance("fit_matrix", "matrix_marginals")
          /\ gen_model' = GenTrain(L_train)
  /\ UNCHANGED <<raw_crowd_answers, gold_crowd_answers, gold_answers,
                 candidate_labeled_tweets, values, tweet_list,
                 wls, L_train, train_cand_labels, test_cand_labels,
                 gen_score, mv, mv_n_correct, accs, train_marginals,
                 train_cands, lstm, test_cands, lstm_score>>

\* gen_model.marginals(L_train)
MatrixMarginals ==
  /\ Advance("matrix_marginals", "done")
  /\ train_marginals' = GenMarginals(gen_model, L_train)
  /\ UNCHANGED <<raw_crowd_answers, gold_crowd_answers, gold_answers,
                 candidate_labeled_tweets, values, tweet_list,
                 wls, L_train, train_cand_labels, test_cand_labels,
                 gen_model, gen_score, mv, mv_n_correct, accs, train_cands,
                 lstm, test_cands, lstm_score>>

NextBuilder ==
  \/ BuildMatrix
  \/ BuildMatrixRejects
  \/ FitMatrix
  \/ MatrixMarginals

SpecBuilder == InitBuilder /\ [][NextBuilder]_vars

(***************************************************************************)
(* Properties.                                                             *)
(***************************************************************************)
Split0Ids == {c.name : c \in {x \in Range(tweet_list) : x.split = 0}}

Split1Ids == {c.name : c \in {x \in Range(tweet_list) : x.split = 1}}

\* the candidate of row i of the label matrix
RowCand(i) == CHOOSE c \in Range(tweet_list) : c.id = L_train.cand_ids[i]

\* the rows of the loaded vote table on split-0 tweets
Split0Votes ==
  {r \in Range(candidate_labeled_tweets) : Str(r.tweet_id) \in Split0Ids}

\* C1: once L_train is built it has exactly one row per tweet id of split 0,
\* the rows by increasing candidate id, and exactly one column per worker id
\* with a vote on a split-0 tweet; no tweet id has two rows and no worker
\* two columns.
C1_MatrixShape ==
  "apply_labeler" \in ran =>
    /\ Len(L_train.M) = Len(L_train.cand_ids)
    /\ {RowCand(i).name : i \in DOMAIN L_train.cand_ids} = Split0Ids
    /\ Len(L_train.cand_ids) = Cardinality(Split0Ids)
    /\ \A i, j \in DOMAIN L_train.cand_ids :
         i < j => L_train.cand_ids[i] < L_train.cand_ids[j]
    /\ Range(L_train.keys) = {Str(r.worker_id) : r \in Split0Votes}
    /\ Len(L_train.keys) = Cardinality({Str(r.worker_id) : r \in Split0Votes})
    /\ \A i \in DOMAIN L_train.M : Len(L_train.M[i]) = Len(L_train.keys)

\* a matrix of several rows and columns, with a worker who voted on test
\* tweets only and has no column
C1_Witness ==
  /\ "apply_labeler" \in ran
  /\ Len(L_train.M) >= 2
  /\ Len(L_train.keys) >= 2
  /\ \E r \in Range(candidate_labeled_tweets) :
       Str(r.worker_id) \notin Range(L_train.keys)

ValidGoldIds ==
  {g.tweet_id : g \in {x \in Range(gold_crowd_answers) :
                         x.correct_category = "Yes"
                         /\ x.correct_category_conf = 1}}

\* C2: after the join every vote of candidate_labeled_tweets is a raw vote on
\* a tweet with a gold row of correct_category 'Yes' and confidence 1, and
\* every raw vote on such a tweet is kept.
C2_JoinKeepsValidated ==
  "load_data" \in ran =>
    /\ \A r \in Range(candidate_labeled_tweets) :
         /\ r.tweet_id \in ValidGoldIds
         /\ \E v \in Range(raw_crowd_answers) : r = JoinedRow(v)
    /\ \A v \in Range(raw_crowd_answers) :
         v.tweet_id \in ValidGoldIds =>
           JoinedRow(v) \in Range(candidate_labeled_tweets)

\* some votes are kept and some are dropped for want of a validated gold row
C2_Witness ==
  /\ "load_data" \in ran
  /\ Len(candidate_labeled_tweets) >= 1
  /\ \E v \in Range(raw_crowd_answers) :
       /\ v.tweet_id \notin ValidGoldIds
       /\ \E g \in Range(gold_crowd_answers) : g.tweet_id = v.tweet_id

\* C3: the candidates are split so that the test set holds 10% of the
\* distinct tweets (rounded down or up) and the training set the rest; each
\* tweet is in exactly one split.
C3_TenPercentTest ==
  "create_candidates" \in ran =>
    LET total == Len(tweet_list)
        test == Cardinality({c \in Range(tweet_list) : c.split = 1})
        train == Cardinality({c \in Range(tweet_list) : c.split = 0})
    IN /\ test + train = total
       /\ 10 * test > total - 10
       /\ 10 * test < total + 10

\* the label matrix the cells up to the labeler build from the vote table
\* raw, with the gold table and the candidates of this run
LTrainOf(raw, gold) ==
  LET df == InnerJoin(raw, FilterGold(gold))
  IN LabelMatrix(tweet_list, BuildWls(df), Values(df))

ValuesOf(raw, gold) == Values(InnerJoin(raw, FilterGold(gold)))

\* the vote tables that differ from raw_crowd_answers only in the worker and
\* the label of the votes cast on split-1 tweets
TestVoteVariants ==
  LET raw == raw_crowd_answers
      Choices(r) ==
        IF Str(r.tweet_id) \in Split1Ids
        THEN {RawRow(r.idx, r.tweet_id, w, e) :
                w \in SmallWorkers, e \in Emotions}
        ELSE {r}
      V[i \in 0..Len(raw)] ==
        IF i = 0 THEN {<<>>}
        ELSE {Append(p, r) : p \in V[i - 1], r \in Choices(raw[i])}
  IN V[Len(raw)]

\* every non-zero cell of L_train is the code of a vote on a split-0 tweet
CellsAreSplit0Votes ==
  \A i \in DOMAIN L_train.M : \A j \in DOMAIN L_train.M[i] :
    L_train.M[i][j] # 0 =>
      /\ RowCand(i).split = 0
      /\ \E r \in Split0Votes :
           /\ Str(r.tweet_id) = RowCand(i).name
           /\ Str(r.worker_id) = L_train.keys[j]
           /\ LabelCode(values, r.emotion) = L_train.M[i][j]

ScenarioMatrix == <<<<1, 1, 2>>, <<2, 2, 2>>, <<1, 2, 1>>>>

C5_MajorityIsAMode ==
  "majority_vote" \in ran =>
    /\ Len(mv) = Len(L_train.M)
    /\ \A i \in DOMAIN L_train.M :
         LET votes == NonZero(L_train.M[i])
         IN /\ mv[i] \in Range(votes)
            /\ \A y \in Range(votes) : Count(votes, y) <= Count(votes, mv[i])
    /\ L_train.M = ScenarioMatrix => mv = <<1, 2, 1>>

\* the majority vote of the scenario has been computed
C5_Witness ==
  /\ "majority_vote" \in ran
  /\ L_train.M = ScenarioMatrix

\* C6: when labels tie for most frequent in a row the lowest tied label code
\* wins, so the majority vote depends on the multiset of the row's votes only.
C6_LowestCodeWinsTies ==
  "majority_vote" \in ran =>
    \A i \in DOMAIN L_train.M :
      LET votes == NonZero(L_train.M[i])
      IN \A y \in Range(votes) :
           Count(votes, y) = Count(votes, mv[i]) => mv[i] <= y

\* the positions in the loaded vote table of the votes of worker w on tweet t
VotesOfPair(t, w) ==
  {k \in DOMAIN candidate_labeled_tweets :
     /\ Str(candidate_labeled_tweets[k].tweet_id) = t
     /\ Str(candidate_labeled_tweets[k].worker_id) = w}

Conflicting(t, w) ==
  \E a, b \in VotesOfPair(t, w) :
    candidate_labeled_tweets[a].emotion # candidate_labeled_tweets[b].emotion

FirstSeenLabel(t, w) ==
  LET k == CHOOSE a \in VotesOfPair(t, w) : \A b \in VotesOfPair(t, w) : a <= b
  IN candidate_labeled_tweets[k].emotion

\* C7: when a (tweet, worker) pair of split 0 has votes with different
\* labels, either building the label matrix stops with an error or the cell
\* holds the first-seen vote.
C7_ConflictKeepsFirstSeen ==
  "apply_labeler" \in ran =>
    \A i \in DOMAIN L_train.M : \A j \in DOMAIN L_train.keys :
      Conflicting(RowCand(i).name, L_train.keys[j]) =>
        L_train.M[i][j] =
          LabelCode(values, FirstSeenLabel(RowCand(i).name, L_train.keys[j]))

\* a matrix built from a table with a conflicting pair
C7_Witness ==
  /\ "apply_labeler" \in ran
  /\ \E i \in DOMAIN L_train.M : \E j \in DOMAIN L_train.keys :
       Conflicting(RowCand(i).name, L_train.keys[j])

NoRepeatedSplit0Pair ==
  \A a, b \in DOMAIN candidate_labeled_tweets :
    LET ra == candidate_labeled_tweets[a]
        rb == candidate_labeled_tweets[b]
    IN (a # b /\ Str(ra.tweet_id) \in Split0Ids
          /\ ra.tweet_id = rb.tweet_id) => ra.worker_id # rb.worker_id

MatrixTriples ==
  {<<RowCand(i).name, L_train.keys[j], values[L_train.M[i][j]]>> :
     <<i, j>> \in {x \in (DOMAIN L_train.M) \X (DOMAIN L_train.keys) :
                     L_train.M[x[1]][x[2]] # 0}}

\* C8: with no repeated (tweet, worker) pair among the split-0 votes, the
\* (tweet id, worker id, label) triples of the non-zero cells of the label
\* matrix are exactly the split-0 votes, one cell per vote.
C8_RoundTrip ==
  ("apply_labeler" \in ran /\ NoRepeatedSplit0Pair) =>
    /\ MatrixTriples =
         {<<Str(r.tweet_id), Str(r.worker_id), r.emotion>> : r \in Split0Votes}
    /\ SumSeq([i \in 1..Len(L_train.M) |-> Len(NonZero(L_train.M[i]))]) =
         Cardinality({k \in DOMAIN candidate_labeled_tweets :
                        Str(candidate_labeled_tweets[k].tweet_id) \in Split0Ids})

\* a matrix of several votes with both labels, from a table without repeats
C8_Witness ==
  /\ "apply_labeler" \in ran
  /\ NoRepeatedSplit0Pair
  /\ Cardinality(MatrixTriples) >= 3
  /\ Cardinality(LabelCodes(L_train)) >= 2

\* the row of L_train of candidate c
RowOfCand(c) ==
  L_train.M[CHOOSE r \in DOMAIN L_train.cand_ids : L_train.cand_ids[r] = c.id]

\* C9: the classifier is given as many marginals as training candidates, the
\* candidates being those of split 0 by increasing Tweet.id, and the i-th
\* marginal is the one computed from the L_train row of the i-th candidate.
C9_MarginalsAligned ==
  "train_lstm" \in ran =>
    /\ Len(train_marginals) = Len(train_cands)
    /\ Range(train_cands) = {c \in Range(tweet_list) : c.split = 0}
    /\ \A i, j \in DOMAIN train_cands :
         i < j => train_cands[i].id < train_cands[j].id
    /\ \A i \in DOMAIN train_cands :
         train_marginals[i] = Marginal(gen_model, RowOfCand(train_cands[i]))
    /\ lstm.X = train_cands
    /\ lstm.Y = train_marginals

\* the classifier is trained on several candidates whose rows differ
C9_Witness ==
  /\ "train_lstm" \in ran
  /\ \E i, j \in DOMAIN train_cands :
       RowOfCand(train_cands[i]) # RowOfCand(train_cands[j])

\* the gold tables that differ from gold_crowd_answers in the sentiment of at
\* most two rows
GoldSentimentVariants ==
  LET gold == gold_crowd_answers
  IN {[k \in 1..Len(gold) |->
         IF k = a THEN [gold[k] EXCEPT !.sentiment = sa]
         ELSE IF k = b THEN [gold[k] EXCEPT !.sentiment = sb]
         ELSE gold[k]] :
        <<a, b, sa, sb>> \in
          (DOMAIN gold) \X (DOMAIN gold) \X Sentiments \X Sentiments}

TweetColumns(df) ==
  [k \in 1..Len(df) |->
     [idx |-> df[k].idx, tweet_id |-> df[k].tweet_id,
      tweet_body |-> df[k].tweet_body]]

AfterMatrixCells ==
  {"gold_labels", "train_gen", "score_gen", "majority_vote",
   "worker_accuracy", "marginals", "train_lstm", "score_lstm"}

\* the loaded votes, in each form the notebook holds them
VoteSet == <<raw_crowd_answers, candidate_labeled_tweets, wls>>

\* each variable changes only in the cell that produces it
WrittenByOwnCellOnly ==
  /\ raw_crowd_answers' = raw_crowd_answers
  /\ gold_crowd_answers' = gold_crowd_answers
  /\ (<<gold_answers, candidate_labeled_tweets>>' #
        <<gold_answers, candidate_labeled_tweets>>) => pc = "load_data"
  /\ values' # values => pc = "define_tweet"
  /\ tweet_list' # tweet_list => pc = "create_candidates"
  /\ wls' # wls => pc = "build_wls"
  /\ L_train' # L_train => pc = "apply_labeler"
  /\ (<<train_cand_labels, test_cand_labels>>' #
        <<train_cand_labels, test_cand_labels>>) => pc = "gold_labels"
  /\ gen_model' # gen_model => pc = "train_gen"
  /\ gen_score' # gen_score => pc = "score_gen"
  /\ <<mv, mv_n_correct>>' # <<mv, mv_n_correct>> => pc = "majority_vote"
  /\ accs' # accs => pc = "worker_accuracy"
  /\ train_marginals' # train_marginals => pc = "marginals"
  /\ <<train_cands, lstm>>' # <<train_cands, lstm>> => pc = "train_lstm"
  /\ <<test_cands, lstm_score>>' # <<test_cands, lstm_score>>
       => pc = "score_lstm"

C11_MatrixAndVotesReadOnly ==
  [][/\ pc \in AfterMatrixCells =>
          /\ L_train' = L_train
          /\ VoteSet' = VoteSet
     /\ WrittenByOwnCellOnly]_vars

\* every cell after the labeler has run over a non-empty matrix, which is
\* still the one the labeler derived from the votes
C11_Witness ==
  /\ pc = "done"
  /\ AfterMatrixCells \subseteq ran
  /\ Len(L_train.M) > 0
  /\ Len(mv) = Len(L_train.M)
  /\ L_train = LabelMatrix(tweet_list, BuildWls(candidate_labeled_tweets),
                           values)

(***************************************************************************)
(* C12: a split-0 candidate without a recorded vote does not make the      *)
(* matrix builder fail: worker_label_generator yields nothing for it, its  *)
(* row is all zero, no vote is invented for it, and the row goes on to the *)
(* fit and to the marginals as a row told apart from the voted ones,       *)
(* without an error being raised for it.                                   *)
(***************************************************************************)
\* the vote table has no row for the candidate's tweet
NoVoteRecorded(c) ==
  \A r \in DOMAIN candidate_labeled_tweets :
    Str(candidate_labeled_tweets[r].tweet_id) # c.name

ZeroRow(row) == \A j \in DOMAIN row : row[j] = 0

\* the matrix without its all-zero rows
VotedRowsOnly(L) ==
  [L EXCEPT !.M = SelectSeq(L.M, LAMBDA row : ~ZeroRow(row))]

\* the cell is a vote of the table, on the row's tweet by the column's worker
CellIsRecordedVote(i, j) ==
  \E r \in DOMAIN candidate_labeled_tweets :
    /\ Str(candidate_labeled_tweets[r].tweet_id) = RowCand(i).name
    /\ Str(candidate_labeled_tweets[r].worker_id) = L_train.keys[j]
    /\ LabelCode(values, candidate_labeled_tweets[r].emotion) = L_train.M[i][j]

CellsWithinCardinality ==
  \A i \in DOMAIN L_train.M : \A j \in DOMAIN L_train.M[i] :
    L_train.M[i][j] \in 0..Len(values)

C13_InferredCardinalityIsTweetCardinality ==
  /\ "apply_labeler" \in ran => CellsWithinCardinality
  /\ "train_gen" \in ran => gen_model.cardinality = Len(values)
  /\ "marginals" \in ran =>
       \A i \in DOMAIN train_marginals :
         train_marginals[i].model.cardinality = Len(values)
  /\ "train_lstm" \in ran =>
       /\ lstm.cardinality = Len(values)
       /\ \A i \in DOMAIN lstm.Y :
            lstm.Y[i].model.cardinality = lstm.cardinality

(***************************************************************************)
(* C14: for each split, building the gold-label array succeeds for every   *)
(* candidate and gives one entry per candidate of the split in Tweet.id    *)
(* order (the row order of L_train for split 0); each entry is 1 + the     *)
(* position of the tweet's gold sentiment in `values`, so it is in         *)
(* 1..len(values) and never 0.                                             *)
(***************************************************************************)
\* the gold sentiment of a candidate's tweet
GoldSentimentOf(c) ==
  LET r == CHOOSE i \in DOMAIN gold_answers :
             Str(gold_answers[i].tweet_id) = c.name
  IN gold_answers[r].sentiment

GoldArrayIsAligned(labels, split) ==
  LET cands == ById({c \in Range(tweet_list) : c.split = split})
  IN /\ Len(labels) = Len(cands)
     /\ \A i \in DOMAIN labels :
          /\ labels[i] \in 1..Len(values)
          /\ values[labels[i]] = GoldSentimentOf(cands[i])

C14_GoldArraysBuiltAndAligned ==
  /\ raised # "ValueError"
  /\ "gold_labels" \in ran =>
       /\ GoldArrayIsAligned(train_cand_labels, 0)
       /\ GoldArrayIsAligned(test_cand_labels, 1)
       /\ [i \in DOMAIN train_cand_labels |->
             (ById({c \in Range(tweet_list) : c.split = 0}))[i].id]
            = L_train.cand_ids

(***************************************************************************)
(* C15: every row of the L_train the pipeline builds has a non-zero cell,  *)
(* each split-0 candidate being a tweet with a vote, so the majority-vote  *)
(* loop never takes the first of an empty most_common: mv has one label in *)
(* 1..K per row, n_correct is between 0 and the number of rows, and the    *)
(* number incorrect is not negative.                                       *)
(***************************************************************************)
EveryRowHasAVote ==
  \A i \in DOMAIN L_train.M : ~ZeroRow(L_train.M[i])

C15_MajorityVoteDefinedOnEveryRow ==
  /\ raised # "IndexError"
  /\ "apply_labeler" \in ran => EveryRowHasAVote
  /\ "majority_vote" \in ran =>
       /\ Len(mv) = Len(L_train.M)
       /\ \A i \in DOMAIN mv :
            /\ mv[i] \in 1..Len(values)
            /\ \E j \in DOMAIN L_train.M[i] : L_train.M[i][j] = mv[i]
       /\ mv_n_correct \in 0..Len(L_train.M)
       /\ Len(L_train.M) - mv_n_correct >= 0

\* the loop ran over several rows, one of them with a missing vote, and
\* was right on some and wrong on others
C15_Witness ==
  /\ "majority_vote" \in ran
  /\ Len(mv) >= 2
  /\ \E i \in DOMAIN L_train.M : \E j \in DOMAIN L_train.M[i] :
       L_train.M[i][j] = 0
  /\ mv_n_correct >= 1
  /\ mv_n_correct < Len(L_train.M)

(***************************************************************************)
(* C16: in the worker-accuracy baseline every column of L_train has a      *)
(* non-zero cell, so the division by its nnz is defined; a worker's        *)
(* accuracy is the number of the worker's votes equal to the gold label    *)
(* over the number of the worker's votes, between 0 and 1: a cell without  *)
(* a vote (0) is never counted as correct, the gold codes being at least 1.*)
(***************************************************************************)
EveryColumnHasAVote ==
  \A j \in DOMAIN L_train.keys : \E i \in DOMAIN L_train.M : L_train.M[i][j] # 0

\* the votes of the worker of column j, and those equal to the gold label
VotesOfColumn(j) == {i \in DOMAIN L_train.M : L_train.M[i][j] # 0}

CorrectVotesOfColumn(j) ==
  {i \in VotesOfColumn(j) : L_train.M[i][j] = train_cand_labels[i]}

C16_WorkerAccuracyDefinedAndBounded ==
  /\ raised # "ZeroDivisionError"
  /\ "apply_labeler" \in ran => EveryColumnHasAVote
  /\ "worker_accuracy" \in ran =>
       /\ Len(accs) = Len(L_train.keys)
       /\ \A j \in DOMAIN accs :
            /\ accs[j][2] = Cardinality(VotesOfColumn(j))
            /\ accs[j][2] > 0
            /\ accs[j][1] = Cardinality(CorrectVotesOfColumn(j))
            /\ 0 <= accs[j][1] /\ accs[j][1] <= accs[j][2]

\* the accuracies were computed over a matrix with a cell without a vote,
\* for a worker who is right on some votes and wrong on others
C16_Witness ==
  /\ "worker_accuracy" \in ran
  /\ \E j \in DOMAIN accs :
       /\ \E i \in DOMAIN L_train.M : L_train.M[i][j] = 0
       /\ accs[j][2] >= 1
  /\ \E j \in DOMAIN accs : 0 < accs[j][1] /\ accs[j][1] < accs[j][2]

====
